---- MODULE Spec2Model ----
(***************************************************************************)
(* Supply/Demand zone pattern matcher of botrading                         *)
(* (botrading/pattern_matchers/supply_demand_pattern_matcher.py) together  *)
(* with the OHLC validator of botrading/utils/df_utils.py.                 *)
(*                                                                         *)
(* A candle sequence (the DataFrame df) is a sequence of records           *)
(* [open, high, low, close, volume].  Positions are 0-based as with        *)
(* pandas' iloc; iloc(df, i) is row i.  Prices are integers and            *)
(* min_base_rally_ratio is a rational [num, den], so every comparison the  *)
(* code makes on floats is made exactly here.                              *)
(*                                                                         *)
(* The module also holds the TimeProvider singleton of                     *)
(* botrading/time/time_provider.py, with threads that construct it         *)
(* concurrently, one step per statement of __new__.                        *)
(***************************************************************************)
EXTENDS Integers, Sequences, FiniteSets, TLC

VARIABLES
    df,                            \* the candle sequence the caller holds
    min_base_rally_ratio,          \* matcher configuration (constructor arguments)
    extrema_window,
    min_momentum_candles,
    detect_continuation_patterns,
    supply_zones,                  \* instance field self.supply_zones
    demand_zones,                  \* instance field self.demand_zones
    status,                        \* "constructed", "returned" or "raised" (last call's outcome)
    result,                        \* value handed back by the last call: <<supply, demand>>, or <<>>
    before_call                    \* history: the two instance fields as the last call found them

\* TimeProvider (class attributes, the objects made, and the threads)
VARIABLES
    instance,                      \* cls._instance: 0 for None, else the object's number
    lock,                          \* cls._lock: 0 when free, else the thread holding it
    objects,                       \* every object super().__new__ made, with its attributes
    pc,                            \* per thread: where it is in TimeProvider(...)
    handed,                        \* per thread: the objects its constructions returned
    initial_syncs,                 \* how often line 40 has run sync_time
    datetimes,                     \* per thread: its last get_datetime call, object and outcome
    auto_sync_threads              \* the background threads started, each with its self

time_vars == <<instance, lock, objects, pc, handed, initial_syncs, auto_sync_threads,
              datetimes>>

\* Trade (src/botrading/base/trade.py)
VARIABLES
    uuid4_calls,                   \* how often uuid.uuid4() has been called
    Trade_defaults,                \* Trade.__init__.__defaults__[0]: the default trade_id
    trades                         \* the Trade objects built so far, in order

trade_vars == <<uuid4_calls, Trade_defaults, trades>>

vars == <<df, min_base_rally_ratio, extrema_window, min_momentum_candles,
          detect_continuation_patterns, supply_zones, demand_zones, status, result,
          before_call, time_vars, trade_vars>>

config == <<min_base_rally_ratio, extrema_window, min_momentum_candles,
            detect_continuation_patterns>>

-----------------------------------------------------------------------------
(* Basic helpers *)

SUPPLY_TYPE == "supply"
DEMAND_TYPE == "demand"

Abs(x) == IF x < 0 THEN -x ELSE x

iloc(frame, i) == frame[i + 1]

\* frame.iloc[from:to] : python slicing, both ends clipped to the frame
iloc_slice(frame, from, to) ==
    LET n  == Len(frame)
        lo == IF from > n THEN n ELSE from
        hi == IF to > n THEN n ELSE to
    IN  IF hi <= lo THEN <<>> ELSE SubSeq(frame, lo + 1, hi)

\* Faulty variant: the two levels passed in each other's position
SupplyDemandZone_levels_swapped(zone_type, start_index, end_index, distal_level, proxima_level, is_continuation_zone) ==
    [zone_type |-> zone_type,
     start_index |-> start_index,
     end_index |-> end_index,
     distal_level |-> proxima_level,
     proxima_level |-> distal_level,
     is_continuation_zone |-> is_continuation_zone]

\* Faulty variant: is_continuation_zone is left at its default
SupplyDemandZone_default_flag(zone_type, start_index, end_index, distal_level, proxima_level, is_continuation_zone) ==
    [zone_type |-> zone_type,
     start_index |-> start_index,
     end_index |-> end_index,
     distal_level |-> distal_level,
     proxima_level |-> proxima_level,
     is_continuation_zone |-> FALSE]

SupplyDemandZone(zone_type, start_index, end_index, distal_level, proxima_level, is_continuation_zone) ==
    [zone_type |-> zone_type,
     start_index |-> start_index,
     end_index |-> end_index,
     distal_level |-> distal_level,
     proxima_level |-> proxima_level,
     is_continuation_zone |-> is_continuation_zone]

\* concatenation of a sequence of sequences, in order
RECURSIVE Flatten(_)
Flatten(seqs) ==
    IF seqs = <<>> THEN <<>> ELSE Head(seqs) \o Flatten(Tail(seqs))

-----------------------------------------------------------------------------
(* OHLC validator *)

check_ohlc_dataframe(frame, min_length) ==
    /\ Len(frame) >= min_length
    /\ ~ \E k \in 1..Len(frame) : frame[k].high < frame[k].low
    /\ ~ \E k \in 1..Len(frame) :
            \/ frame[k].open < 0
            \/ frame[k].high < 0
            \/ frame[k].low < 0
            \/ frame[k].close < 0
            \/ frame[k].volume < 0

-----------------------------------------------------------------------------
(* Extrema locator: scipy.signal.argrelextrema(values, comparator, order)  *)
(* with its default mode 'clip': a neighbour position outside the array is *)
(* clipped to the nearest end.                                             *)

clip(i, n) == IF i < 0 THEN 0 ELSE IF i > n - 1 THEN n - 1 ELSE i

\* Faulty variant: only the earlier neighbours are compared
argrelextrema_earlier_only(values, greater, order) ==
    LET n == Len(values)
        cmp(a, b) == IF greater THEN a > b ELSE a < b
        hit(i) == \A shift \in 1..order :
                     cmp(values[i + 1], values[clip(i - shift, n) + 1])
    IN  SelectSeq([k \in 1..n |-> k - 1], hit)

\* Faulty variant: the comparison is not strict (np.less_equal / np.greater_equal)
argrelextrema_not_strict(values, greater, order) ==
    LET n == Len(values)
        cmp(a, b) == IF greater THEN a >= b ELSE a <= b
        hit(i) == \A shift \in 1..order :
                     /\ cmp(values[i + 1], values[clip(i + shift, n) + 1])
                     /\ cmp(values[i + 1], values[clip(i - shift, n) + 1])
    IN  SelectSeq([k \in 1..n |-> k - 1], hit)

argrelextrema(values, greater, order) ==
    LET n == Len(values)
        cmp(a, b) == IF greater THEN a > b ELSE a < b
        hit(i) == \A shift \in 1..order :
                     /\ cmp(values[i + 1], values[clip(i + shift, n) + 1])
                     /\ cmp(values[i + 1], values[clip(i - shift, n) + 1])
    IN  SelectSeq([k \in 1..n |-> k - 1], hit)

find_local_extrema(frame, window) ==
    [local_minima |-> argrelextrema([k \in 1..Len(frame) |-> frame[k].low], FALSE, window),
     local_maxima |-> argrelextrema([k \in 1..Len(frame) |-> frame[k].high], TRUE, window)]

-----------------------------------------------------------------------------
(* Zone qualifier *)

\* A pandas Series element: a number, or NaN (what shift(1) puts in the first row).
\* Every ordering comparison with NaN is False.
NaN == [nan |-> TRUE, val |-> 0]
Num(v) == [nan |-> FALSE, val |-> v]
series_gt(a, b) == ~a.nan /\ ~b.nan /\ a.val > b.val
series_lt(a, b) == ~a.nan /\ ~b.nan /\ a.val < b.val

\* Series.shift(1): every value moves one row down, the first row becomes NaN
shift(series) == [k \in 1..Len(series) |-> IF k = 1 THEN NaN ELSE series[k - 1]]

is_staircase_pattern(base_candles, zone_type) ==
    LET close == [k \in 1..Len(base_candles) |-> Num(base_candles[k].close)]
        prev  == shift(close)
    IN  IF zone_type = DEMAND_TYPE
        THEN \A k \in 1..Len(base_candles) : series_gt(close[k], prev[k])
        ELSE IF zone_type = SUPPLY_TYPE
        THEN \A k \in 1..Len(base_candles) : series_lt(close[k], prev[k])
        ELSE FALSE

\* talib.CDLDOJI: TA-Lib's candle setting BodyDoji is (range high-low, average
\* period 10, factor 0.1).  The first DojiAvgPeriod outputs are 0 (lookback);
\* from then on a candle scores DojiScore when its real body is at most a
\* tenth of the average high-low range of the DojiAvgPeriod candles before it:
\*   |close - open| <= (1/DojiFactorInv) * total / DojiAvgPeriod
DojiAvgPeriod == 10
DojiFactorInv == 10
DojiScore == 100

CDLDOJI(candles) ==
    [k \in 1..Len(candles) |->
        IF k <= DojiAvgPeriod THEN 0
        ELSE LET RECURSIVE total(_)
                 total(j) == IF j >= k THEN 0
                             ELSE (candles[j].high - candles[j].low) + total(j + 1)
             IN  IF Abs(candles[k].close - candles[k].open) * DojiFactorInv * DojiAvgPeriod
                        <= total(k - DojiAvgPeriod)
                 THEN DojiScore ELSE 0]

RECURSIVE series_sum(_)
series_sum(series) ==
    IF series = <<>> THEN 0 ELSE Head(series) + series_sum(Tail(series))

has_doji_pattern(base_candles) ==
    LET doji_count == series_sum(CDLDOJI(base_candles))
    IN  doji_count > 1

is_low_probability_trading_zone(base_candles, zone_type) ==
    IF is_staircase_pattern(base_candles, zone_type) THEN TRUE
    ELSE IF has_doji_pattern(base_candles) THEN TRUE
    ELSE FALSE

\* The loop of has_several_momentum_candles from row i on: the strong candle is
\* counted first, the break on a close crossing the base close comes after.
RECURSIVE momentum_count(_, _, _, _, _)
momentum_count(frame, start_index, zone_type, i, count) ==
    IF i >= Len(frame) THEN count
    ELSE LET body_length   == Abs(iloc(frame, i).close - iloc(frame, i).open)
             candle_length == iloc(frame, i).high - iloc(frame, i).low
             counted       == IF 2 * body_length > candle_length THEN count + 1 ELSE count
         IN  IF \/ /\ zone_type = DEMAND_TYPE
                   /\ iloc(frame, i).close < iloc(frame, start_index).close
                \/ /\ zone_type = SUPPLY_TYPE
                   /\ iloc(frame, i).close > iloc(frame, start_index).close
             THEN counted
             ELSE momentum_count(frame, start_index, zone_type, i + 1, counted)

has_several_momentum_candles(frame, start_index, zone_type, momentum_candles) ==
    momentum_count(frame, start_index, zone_type, start_index + 1, 0) >= momentum_candles

-----------------------------------------------------------------------------
(* Distal-violation filter: rows end_index.. of the frame (the slice is     *)
(* empty when end_index is past the last row)                               *)

\* Faulty variant: only the row end_index is looked at (iloc[end_index] for iloc[end_index:])
price_violates_distal_line_one_row(frame, end_index, distal_level, zone_type) ==
    IF end_index > Len(frame) - 1 THEN FALSE
    ELSE IF zone_type = DEMAND_TYPE THEN iloc(frame, end_index).low < distal_level
    ELSE IF zone_type = SUPPLY_TYPE THEN iloc(frame, end_index).high > distal_level
    ELSE FALSE

price_violates_distal_line(frame, end_index, distal_level, zone_type) ==
    IF zone_type = DEMAND_TYPE
    THEN \E j \in end_index..(Len(frame) - 1) : iloc(frame, j).low < distal_level
    ELSE IF zone_type = SUPPLY_TYPE
    THEN \E j \in end_index..(Len(frame) - 1) : iloc(frame, j).high > distal_level
    ELSE FALSE

-----------------------------------------------------------------------------
(* Zone candidate builders.  One loop iteration yields "skip" (continue, or *)
(* the ratio test failing), "zone" (append) or "raise" (an exception leaves *)
(* the function); a whole builder yields [exc, zones].                      *)

Skip == [kind |-> "skip"]
Raise == [kind |-> "raise"]
Found(zone) == [kind |-> "zone", zone |-> zone]

\* the outcome of a loop whose iterations, in order, had these outcomes
loop_outcome(iterations) ==
    IF \E k \in 1..Len(iterations) : iterations[k].kind = "raise"
    THEN [exc |-> "IndexError", zones |-> <<>>]
    ELSE LET is_zone(it) == it.kind = "zone"
             kept == SelectSeq(iterations, is_zone)
         IN  [exc |-> "none", zones |-> [k \in 1..Len(kept) |-> kept[k].zone]]

\* Faulty variant: the base is compared against the rally scaled by the ratio
ratio_test_scales_rally(rally_length, base_length, ratio) ==
    rally_length * ratio.num > base_length * ratio.den

\* Faulty variant: the comparison is turned around
ratio_test_less(rally_length, base_length, ratio) ==
    rally_length * ratio.den < base_length * ratio.num

\* Faulty variant: a rally equal to the scaled base passes
ratio_test_not_strict(rally_length, base_length, ratio) ==
    rally_length * ratio.den >= base_length * ratio.num

\* the ratio test  rally_length > base_length * min_base_rally_ratio
ratio_test(rally_length, base_length, ratio) ==
    rally_length * ratio.den > base_length * ratio.num

\* Faulty variant: min(open, close) taken for a demand zone
demand_proxima_level_min(base_candle) ==
    IF base_candle.open < base_candle.close THEN base_candle.open ELSE base_candle.close

\* proxima_level of a base candle: max(open, close) for demand, min(open, close) for supply
demand_proxima_level(base_candle) ==
    IF base_candle.open > base_candle.close THEN base_candle.open ELSE base_candle.close

supply_proxima_level(base_candle) ==
    IF base_candle.open < base_candle.close THEN base_candle.open ELSE base_candle.close

\* the guard at the head of both extremum loops
outside_window(frame, index, window) ==
    index < window \/ index > Len(frame) - window

demand_iteration(frame, min_index, ratio, window, momentum_candles) ==
    IF outside_window(frame, min_index, window) THEN Skip
    ELSE IF min_index + window >= Len(frame) THEN Raise   \* close.iloc[min_index + window]
    ELSE
    LET base_length   == iloc(frame, min_index).close - iloc(frame, min_index).low
        rally_length  == iloc(frame, min_index + window).close - iloc(frame, min_index).close
        base_candles  == iloc_slice(frame, min_index, min_index + window + 1)
        base_candle   == iloc(frame, min_index)
        distal_level  == base_candle.low
        proxima_level == demand_proxima_level(base_candle)
        end_index     == min_index + window
    IN  IF ~ratio_test(rally_length, base_length, ratio) THEN Skip
        ELSE IF is_low_probability_trading_zone(base_candles, DEMAND_TYPE) THEN Skip
        ELSE IF ~has_several_momentum_candles(frame, min_index, DEMAND_TYPE, momentum_candles)
             THEN Skip
        ELSE IF price_violates_distal_line(frame, end_index, distal_level, DEMAND_TYPE)
             THEN Skip
        ELSE Found(SupplyDemandZone(DEMAND_TYPE, min_index, end_index, distal_level,
                                    proxima_level, FALSE))

find_demand_zones(frame, local_minima, ratio, window, momentum_candles) ==
    loop_outcome([k \in 1..Len(local_minima) |->
        demand_iteration(frame, local_minima[k], ratio, window, momentum_candles)])

supply_iteration(frame, max_index, ratio, window, momentum_candles) ==
    IF outside_window(frame, max_index, window) THEN Skip
    ELSE
    LET base_length   == iloc(frame, max_index).high - iloc(frame, max_index).close
        rally_length  == iloc(frame, max_index).close - iloc(frame, max_index - window).close
        base_candles  == iloc_slice(frame, max_index, max_index + window + 1)
        base_candle   == iloc(frame, max_index)
        distal_level  == base_candle.high
        proxima_level == supply_proxima_level(base_candle)
        end_index     == max_index + window
    IN  IF ~ratio_test(rally_length, base_length, ratio) THEN Skip
        ELSE IF is_low_probability_trading_zone(base_candles, SUPPLY_TYPE) THEN Skip
        ELSE IF ~has_several_momentum_candles(frame, max_index, SUPPLY_TYPE, momentum_candles)
             THEN Skip
        ELSE IF price_violates_distal_line(frame, end_index, distal_level, SUPPLY_TYPE)
             THEN Skip
        ELSE Found(SupplyDemandZone(SUPPLY_TYPE, max_index, max_index + window, distal_level,
                                    proxima_level, FALSE))

find_supply_zones(frame, local_maxima, ratio, window, momentum_candles) ==
    loop_outcome([k \in 1..Len(local_maxima) |->
        supply_iteration(frame, local_maxima[k], ratio, window, momentum_candles)])

-----------------------------------------------------------------------------
(* Continuation zone detectors *)

\* list(reversed(indices))
reversed(indices) == [k \in 1..Len(indices) |-> indices[Len(indices) + 1 - k]]

\* rows first..last-1 of a leg, as range(first, last)
range(first, last) == [k \in 1..(IF last > first THEN last - first ELSE 0) |-> first + k - 1]

demand_continuation_iteration(frame, i, max_index, min_index, ratio) ==
    IF ~(/\ iloc(frame, i).close > iloc(frame, i - 1).close
         /\ iloc(frame, i).close > iloc(frame, i).open) THEN Skip
    ELSE
    LET base_length == iloc(frame, i).high - iloc(frame, i).low
        rally_length_down_before == Abs(iloc(frame, i).close - iloc(frame, max_index).close)
        rally_length_up_after    == Abs(iloc(frame, min_index).close - iloc(frame, i).close)
        base_candle   == iloc(frame, i)
        distal_level  == base_candle.low
        proxima_level == demand_proxima_level(base_candle)
    IN  IF ~(/\ ratio_test(rally_length_down_before, base_length, ratio)
             /\ ratio_test(rally_length_up_after, base_length, ratio)) THEN Skip
        ELSE IF price_violates_distal_line(frame, i, distal_level, DEMAND_TYPE) THEN Skip
        ELSE Found(SupplyDemandZone(DEMAND_TYPE, i, i, distal_level, proxima_level, TRUE))

\* [idx for idx in reversed(local_maxima) if idx < min_index]
prev_maxima(local_maxima, min_index) ==
    LET before(idx) == idx < min_index
    IN  SelectSeq(reversed(local_maxima), before)

\* the rows the demand continuation scan of one local minimum visits:
\* range(prev_maxima[-1] + 1, min_index)
demand_scan(local_maxima, min_index) ==
    LET maxima == prev_maxima(local_maxima, min_index)
    IN  IF maxima = <<>> THEN <<>>
        ELSE range(maxima[Len(maxima)] + 1, min_index)

\* the zones one local minimum contributes
demand_continuation_leg(frame, min_index, local_maxima, ratio) ==
    LET maxima == prev_maxima(local_maxima, min_index)
    IN  IF maxima = <<>> THEN <<>>
        ELSE LET max_index == maxima[Len(maxima)]
                 rows == demand_scan(local_maxima, min_index)
             IN  loop_outcome([k \in 1..Len(rows) |->
                     demand_continuation_iteration(frame, rows[k], max_index, min_index,
                                                   ratio)]).zones

find_demand_continuation_zones(frame, local_minima, local_maxima, ratio, momentum_candles) ==
    Flatten([k \in 1..Len(local_minima) |->
        demand_continuation_leg(frame, local_minima[k], local_maxima, ratio)])

\* Faulty variant: only the rally before the candle is tested
supply_continuation_iteration_one_rally(frame, i, max_index, min_index, ratio) ==
    IF ~(/\ iloc(frame, i).close < iloc(frame, i - 1).close
         /\ iloc(frame, i).close < iloc(frame, i).open) THEN Skip
    ELSE
    LET base_length == iloc(frame, i).high - iloc(frame, i).low
        rally_length_up_before  == Abs(iloc(frame, max_index).close - iloc(frame, i).close)
        base_candle   == iloc(frame, i)
        distal_level  == base_candle.high
        proxima_level == supply_proxima_level(base_candle)
    IN  IF ~ratio_test(rally_length_up_before, base_length, ratio) THEN Skip
        ELSE IF price_violates_distal_line(frame, i, distal_level, SUPPLY_TYPE) THEN Skip
        ELSE Found(SupplyDemandZone(SUPPLY_TYPE, i, i, distal_level, proxima_level, TRUE))

supply_continuation_iteration(frame, i, max_index, min_index, ratio) ==
    IF ~(/\ iloc(frame, i).close < iloc(frame, i - 1).close
         /\ iloc(frame, i).close < iloc(frame, i).open) THEN Skip
    ELSE
    LET base_length == iloc(frame, i).high - iloc(frame, i).low
        rally_length_up_before  == Abs(iloc(frame, max_index).close - iloc(frame, i).close)
        rally_length_down_after == Abs(iloc(frame, i).close - iloc(frame, min_index).close)
        base_candle   == iloc(frame, i)
        distal_level  == base_candle.high
        proxima_level == supply_proxima_level(base_candle)
    IN  IF ~(/\ ratio_test(rally_length_up_before, base_length, ratio)
             /\ ratio_test(rally_length_down_after, base_length, ratio)) THEN Skip
        ELSE IF price_violates_distal_line(frame, i, distal_level, SUPPLY_TYPE) THEN Skip
        ELSE Found(SupplyDemandZone(SUPPLY_TYPE, i, i, distal_level, proxima_level, TRUE))

\* [idx for idx in reversed(local_minima) if idx > max_index]
next_minima(local_minima, max_index) ==
    LET after(idx) == idx > max_index
    IN  SelectSeq(reversed(local_minima), after)

\* the rows the supply continuation scan of one local maximum visits:
\* range(max_index + 1, next_minima[-1])
supply_scan(local_minima, max_index) ==
    LET minima == next_minima(local_minima, max_index)
    IN  IF minima = <<>> THEN <<>>
        ELSE range(max_index + 1, minima[Len(minima)])

\* the zones one local maximum contributes
supply_continuation_leg(frame, max_index, local_minima, ratio) ==
    LET minima == next_minima(local_minima, max_index)
    IN  IF minima = <<>> THEN <<>>
        ELSE LET min_index == minima[Len(minima)]
                 rows == supply_scan(local_minima, max_index)
             IN  loop_outcome([k \in 1..Len(rows) |->
                     supply_continuation_iteration(frame, rows[k], max_index, min_index,
                                                   ratio)]).zones

\* Faulty variant: continuation zones must pass the momentum confirmation
find_supply_continuation_zones_confirmed(frame, local_minima, local_maxima, ratio, momentum_candles) ==
    LET confirmed(zone) ==
            has_several_momentum_candles(frame, zone.start_index, SUPPLY_TYPE,
                                         momentum_candles)
    IN  SelectSeq(Flatten([k \in 1..Len(local_maxima) |->
            supply_continuation_leg(frame, local_maxima[k], local_minima, ratio)]),
            confirmed)

find_supply_continuation_zones(frame, local_minima, local_maxima, ratio, momentum_candles) ==
    Flatten([k \in 1..Len(local_maxima) |->
        supply_continuation_leg(frame, local_maxima[k], local_minima, ratio)])

-----------------------------------------------------------------------------
(* SupplyDemandPatternMatcher.detect_supply_demand_zones as a function of   *)
(* the frame and the configuration: the exception that leaves the call (or  *)
(* "none"), and the two instance fields as the call leaves them.            *)

\* Faulty variant: the continuation pass runs whatever the flag is
detect_finish_ignores_flag(frame, extrema, supply, demand, ratio, momentum_candles, continuation) ==
    IF demand.exc # "none"
    THEN [exc |-> demand.exc, supply_zones |-> supply.zones, demand_zones |-> <<>>]
    ELSE [exc |-> "none",
          supply_zones |-> supply.zones \o
              find_supply_continuation_zones(frame, extrema.local_minima,
                  extrema.local_maxima, ratio, momentum_candles),
          demand_zones |-> demand.zones \o
              find_demand_continuation_zones(frame, extrema.local_minima,
                  extrema.local_maxima, ratio, momentum_candles)]

\* Faulty variant: the continuation zones are put in front of the lists
detect_finish_prepends(frame, extrema, supply, demand, ratio, momentum_candles, continuation) ==
    IF demand.exc # "none"
    THEN [exc |-> demand.exc, supply_zones |-> supply.zones, demand_zones |-> <<>>]
    ELSE IF continuation
    THEN [exc |-> "none",
          supply_zones |->
              find_supply_continuation_zones(frame, extrema.local_minima,
                  extrema.local_maxima, ratio, momentum_candles) \o supply.zones,
          demand_zones |->
              find_demand_continuation_zones(frame, extrema.local_minima,
                  extrema.local_maxima, ratio, momentum_candles) \o demand.zones]
    ELSE [exc |-> "none", supply_zones |-> supply.zones, demand_zones |-> demand.zones]

\* the rest of the call once the extremum-rooted builders have run
detect_finish(frame, extrema, supply, demand, ratio, momentum_candles, continuation) ==
    IF demand.exc # "none"
    THEN \* self.supply_zones is assigned, then find_demand_zones raises
         [exc |-> demand.exc, supply_zones |-> supply.zones, demand_zones |-> <<>>]
    ELSE IF continuation
    THEN [exc |-> "none",
          supply_zones |-> supply.zones \o
              find_supply_continuation_zones(frame, extrema.local_minima,
                  extrema.local_maxima, ratio, momentum_candles),
          demand_zones |-> demand.zones \o
              find_demand_continuation_zones(frame, extrema.local_minima,
                  extrema.local_maxima, ratio, momentum_candles)]
    ELSE [exc |-> "none", supply_zones |-> supply.zones, demand_zones |-> demand.zones]

\* the call from find_local_extrema's result on
detect_from(frame, extrema, ratio, window, momentum_candles, continuation) ==
    detect_finish(frame, extrema,
        find_supply_zones(frame, extrema.local_maxima, ratio, window, momentum_candles),
        find_demand_zones(frame, extrema.local_minima, ratio, window, momentum_candles),
        ratio, momentum_candles, continuation)

detect(frame, ratio, window, momentum_candles, continuation) ==
    detect_from(frame, find_local_extrema(frame, window), ratio, window, momentum_candles,
                continuation)

\* Faulty variant: the call's zones are appended to the lists already held
call_ends_appends(out) ==
    /\ supply_zones' = supply_zones \o out.supply_zones
    /\ demand_zones' = demand_zones \o out.demand_zones
    /\ status' = IF out.exc = "none" THEN "returned" ELSE "raised"
    /\ result' = IF out.exc = "none" THEN <<supply_zones', demand_zones'>>
                 ELSE <<>>
    /\ before_call' = <<supply_zones, demand_zones>>

\* Faulty variant: a call that raises puts back the lists it found
call_ends_rolls_back(out) ==
    /\ before_call' = <<supply_zones, demand_zones>>
    /\ supply_zones' = IF out.exc = "none" THEN out.supply_zones ELSE supply_zones
    /\ demand_zones' = IF out.exc = "none" THEN out.demand_zones ELSE demand_zones
    /\ status' = IF out.exc = "none" THEN "returned" ELSE "raised"
    /\ result' = IF out.exc = "none" THEN <<out.supply_zones, out.demand_zones>>
                 ELSE <<>>

\* what a call that ended with `out` leaves in the instance and hands back
call_ends(out) ==
    /\ before_call' = <<supply_zones, demand_zones>>
    /\ supply_zones' = out.supply_zones
    /\ demand_zones' = out.demand_zones
    /\ status' = IF out.exc = "none" THEN "returned" ELSE "raised"
    /\ result' = IF out.exc = "none" THEN <<out.supply_zones, out.demand_zones>>
                 ELSE <<>>

\* The call on the caller's frame.
detect_supply_demand_zones ==
    /\ call_ends(detect(df, min_base_rally_ratio, extrema_window, min_momentum_candles,
                        detect_continuation_patterns))
    /\ UNCHANGED <<df, config, time_vars, trade_vars>>

\* A call on another frame: the caller passes `frame` to the same instance.
detect_supply_demand_zones_on(frame) ==
    /\ df' = frame
    /\ call_ends(detect(frame, min_base_rally_ratio, extrema_window, min_momentum_candles,
                        detect_continuation_patterns))
    /\ UNCHANGED <<config, time_vars, trade_vars>>

-----------------------------------------------------------------------------
(* TimeProvider: __new__ statement by statement, executed by thread t, and  *)
(* the background thread start_auto_sync starts.                            *)

\* the matcher is not touched by the threads
matcher_vars == <<df, config, supply_zones, demand_zones, status, result, before_call>>

MaxThreads == 3

Threads == 1..MaxThreads

\* attribute values: None, or a value that was set
None == "None"
Offset == "offset"

\* the object super().__new__ returns: no instance attribute set yet
new_object == [time_offset |-> "unset", last_sync |-> "unset", timezone |-> "unset",
               sync_interval |-> "unset", initialised |-> 0]

\* no thread has touched the class yet
TimeProviderLoaded ==
    /\ instance = 0
    /\ lock = 0
    /\ objects = <<>>
    /\ pc = [t \in Threads |-> "idle"]
    /\ handed = [t \in Threads |-> {}]
    /\ initial_syncs = 0
    /\ auto_sync_threads = <<>>
    /\ datetimes = [t \in Threads |-> [self |-> 0, value |-> "none"]]

\* sync_time on object self: the NTP request succeeds (offset and last_sync
\* are set) or fails (time_offset = None, last_sync stays)
sync_time(self, ok) ==
    objects' = [objects EXCEPT ![self] =
                   IF ok THEN [@ EXCEPT !.time_offset = Offset, !.last_sync = "synced"]
                   ELSE [@ EXCEPT !.time_offset = None]]

\* Faulty variant: the thread enters without waiting for the lock
new_acquire_unlocked(t) ==
    /\ pc[t] = "idle"
    /\ pc' = [pc EXCEPT ![t] = "test"]
    /\ UNCHANGED <<instance, lock, objects, handed, initial_syncs, auto_sync_threads, datetimes>>
    /\ UNCHANGED <<matcher_vars, trade_vars>>

\* with cls._lock:  (entering)
new_acquire(t) ==
    /\ pc[t] = "idle"
    /\ lock = 0
    /\ lock' = t
    /\ pc' = [pc EXCEPT ![t] = "test"]
    /\ UNCHANGED <<instance, objects, handed, initial_syncs, auto_sync_threads, datetimes>>
    /\ UNCHANGED <<matcher_vars, trade_vars>>

\* if cls._instance is None:
new_test(t) ==
    /\ pc[t] = "test"
    /\ pc' = [pc EXCEPT ![t] = IF instance = 0 THEN "create" ELSE "release"]
    /\ UNCHANGED <<instance, lock, objects, handed, initial_syncs, auto_sync_threads, datetimes>>
    /\ UNCHANGED <<matcher_vars, trade_vars>>

\* cls._instance = super(TimeProvider, cls).__new__(cls)
new_create(t) ==
    /\ pc[t] = "create"
    /\ objects' = Append(objects, new_object)
    /\ instance' = Len(objects) + 1
    /\ pc' = [pc EXCEPT ![t] = "attributes"]
    /\ UNCHANGED <<lock, handed, initial_syncs, auto_sync_threads, datetimes>>
    /\ UNCHANGED <<matcher_vars, trade_vars>>

\* cls._instance.time_offset = None ... cls._instance.sync_interval = sync_interval
new_attributes(t) ==
    /\ pc[t] = "attributes"
    /\ objects' = [objects EXCEPT ![instance] =
                       [time_offset |-> None, last_sync |-> None, timezone |-> "timezone",
                        sync_interval |-> "sync_interval", initialised |-> @.initialised + 1]]
    /\ pc' = [pc EXCEPT ![t] = "sync_time"]
    /\ UNCHANGED <<instance, lock, handed, initial_syncs, auto_sync_threads, datetimes>>
    /\ UNCHANGED <<matcher_vars, trade_vars>>

\* cls._instance.sync_time()
new_sync_time(t) ==
    /\ pc[t] = "sync_time"
    /\ \E ok \in BOOLEAN : sync_time(instance, ok)
    /\ initial_syncs' = initial_syncs + 1
    /\ pc' = [pc EXCEPT ![t] = "start_auto_sync"]
    /\ UNCHANGED <<instance, lock, handed, auto_sync_threads, datetimes>>
    /\ UNCHANGED <<matcher_vars, trade_vars>>

\* cls._instance.start_auto_sync(): threading.Thread(target=sync, daemon=True).start()
start_auto_sync(t) ==
    /\ pc[t] = "start_auto_sync"
    /\ auto_sync_threads' = Append(auto_sync_threads, instance)
    /\ pc' = [pc EXCEPT ![t] = "release"]
    /\ UNCHANGED <<instance, lock, objects, handed, initial_syncs, datetimes>>
    /\ UNCHANGED <<matcher_vars, trade_vars>>

\* leaving the with block
new_release(t) ==
    /\ pc[t] = "release"
    /\ lock' = 0
    /\ pc' = [pc EXCEPT ![t] = "return"]
    /\ UNCHANGED <<instance, objects, handed, initial_syncs, auto_sync_threads, datetimes>>
    /\ UNCHANGED <<matcher_vars, trade_vars>>

\* return cls._instance ; the thread may construct again later
new_return(t) ==
    /\ pc[t] = "return"
    /\ handed' = [handed EXCEPT ![t] = @ \cup {instance}]
    /\ pc' = [pc EXCEPT ![t] = "idle"]
    /\ UNCHANGED <<instance, lock, objects, initial_syncs, auto_sync_threads, datetimes>>
    /\ UNCHANGED <<matcher_vars, trade_vars>>

\* one round of a background thread's loop: self.sync_time(); time.sleep(...)
auto_sync(k) ==
    /\ \E ok \in BOOLEAN : sync_time(auto_sync_threads[k], ok)
    /\ UNCHANGED <<instance, lock, pc, handed, initial_syncs, auto_sync_threads, datetimes>>
    /\ UNCHANGED <<matcher_vars, trade_vars>>

\* get_datetime on an object the thread was handed, first half of line 65:
\* self.time_offset is read and compared with None; when it is None the call
\* yields datetime.now(pytz.utc), else the thread goes on to the else branch
get_datetime_test(t) ==
    /\ pc[t] = "idle"
    /\ \E self \in handed[t] :
          IF objects[self].time_offset = None
          THEN /\ datetimes' = [datetimes EXCEPT ![t] = [self |-> self, value |-> "system"]]
               /\ pc' = pc
          ELSE /\ datetimes' = [datetimes EXCEPT ![t] = [self |-> self, value |-> "pending"]]
               /\ pc' = [pc EXCEPT ![t] = "get_datetime"]
    /\ UNCHANGED <<instance, lock, objects, handed, initial_syncs, auto_sync_threads>>
    /\ UNCHANGED <<matcher_vars, trade_vars>>

\* the else branch, lines 65-66: self.time_offset is read again for
\* time.time() + self.time_offset; float + None raises TypeError
get_datetime_offset(t) ==
    /\ pc[t] = "get_datetime"
    /\ datetimes' = [datetimes EXCEPT ![t].value =
                         IF objects[datetimes[t].self].time_offset = None
                         THEN "TypeError" ELSE "offset"]
    /\ pc' = [pc EXCEPT ![t] = "idle"]
    /\ UNCHANGED <<instance, lock, objects, handed, initial_syncs, auto_sync_threads>>
    /\ UNCHANGED <<matcher_vars, trade_vars>>

-----------------------------------------------------------------------------
(* Trade: construction with and without an explicit trade_id, and from_dict *)

MaxTrades == 3

\* the trade ids callers pass, and the ids stored in dictionaries
TradeIds == {"a", "b"}

\* str(uuid.uuid4()) at the n-th call: a value no other call returns
uuid4(n) == <<"uuid4", n>>

\* the class statement has run: the default of the trade_id parameter of
\* __init__ was evaluated, once, when the def statement was executed
TradeLoaded ==
    /\ uuid4_calls = 1
    /\ Trade_defaults = uuid4(1)
    /\ trades = <<>>

\* the object __init__ leaves; given = FALSE when the caller passes no trade_id
\* (init_trade_id remembers what __init__ assigned to self.trade_id)
Trade_init(given, trade_id) ==
    LET self_trade_id == IF given THEN trade_id ELSE Trade_defaults
    IN  [trade_id |-> self_trade_id, init_trade_id |-> self_trade_id, given |-> given,
         is_closed |-> FALSE]

\* Trade() or Trade(trade_id)
Trade_new ==
    /\ Len(trades) < MaxTrades
    /\ \E given \in BOOLEAN, trade_id \in TradeIds :
          trades' = Append(trades, Trade_init(given, trade_id))
    /\ UNCHANGED <<uuid4_calls, Trade_defaults>>
    /\ UNCHANGED <<matcher_vars, time_vars>>

\* Trade.from_dict(data): trade = cls(); trade.trade_id = data.get('trade_id')
Trade_from_dict ==
    /\ Len(trades) < MaxTrades
    /\ \E data_trade_id \in TradeIds \cup {None} :
          trades' = Append(trades, [Trade_init(FALSE, None) EXCEPT !.trade_id = data_trade_id])
    /\ UNCHANGED <<uuid4_calls, Trade_defaults>>
    /\ UNCHANGED <<matcher_vars, time_vars>>

NextTrade ==
    \/ Trade_new
    \/ Trade_from_dict

NextTime ==
    \/ \E t \in Threads : new_acquire(t)
    \/ \E t \in Threads : new_test(t)
    \/ \E t \in Threads : new_create(t)
    \/ \E t \in Threads : new_attributes(t)
    \/ \E t \in Threads : new_sync_time(t)
    \/ \E t \in Threads : start_auto_sync(t)
    \/ \E t \in Threads : new_release(t)
    \/ \E t \in Threads : new_return(t)
    \/ \E k \in 1..Len(auto_sync_threads) : auto_sync(k)
    \/ \E t \in Threads : get_datetime_test(t)
    \/ \E t \in Threads : get_datetime_offset(t)

-----------------------------------------------------------------------------
(* Inputs and specifications *)

Candle(o, h, l, c) == [open |-> o, high |-> h, low |-> l, close |-> c, volume |-> 1]

Ratio(num, den) == [num |-> num, den |-> den]

\* all candle sequences of at most max_len candles over an alphabet
Frames(alphabet, max_len) == UNION {[1..n -> alphabet] : n \in 0..max_len}

\* the state after SupplyDemandPatternMatcher(...) is constructed, the caller
\* holding one of the frames
Constructed(frames, ratios, windows, momentums, flags) ==
    /\ df \in frames
    /\ min_base_rally_ratio \in ratios
    /\ extrema_window \in windows
    /\ min_momentum_candles \in momentums
    /\ detect_continuation_patterns \in flags
    /\ supply_zones = <<>>
    /\ demand_zones = <<>>
    /\ status = "constructed"
    /\ result = <<>>
    /\ before_call = << <<>>, <<>> >>
    /\ TimeProviderLoaded
    /\ TradeLoaded

\* min_base_rally_ratio values: 0.5 and the default 1.5
Ratios == { Ratio(1, 2), Ratio(3, 2) }

MaxWindow == 2
MaxMomentum == 2

\* Candles with open and close inside [low, high]:
\*   flat low, strong rising high, strong falling, wide rising from 0
FlatLow == Candle(1, 1, 1, 1)
RiseHigh == Candle(3, 4, 3, 4)
FallLow == Candle(2, 2, 1, 1)
RiseWide == Candle(0, 2, 0, 2)
\*   wide falling to 0
FallWide == Candle(3, 3, 0, 0)
\* Candles the validator accepts although open/close lie below low
BelowA == Candle(0, 3, 3, 0)
BelowB == Candle(1, 2, 2, 1)
\* A candle the validator rejects (high < low)
Crossed == Candle(2, 1, 2, 2)

Candles == { FlatLow, RiseHigh, FallLow, RiseWide }

\* General specification: every frame of at most MaxLen candles, every configuration
MaxLen == 5

Init ==
    Constructed(Frames(Candles, MaxLen), Ratios, 1..MaxWindow, 0..MaxMomentum, BOOLEAN)

Next == detect_supply_demand_zones

Spec == Init /\ [][Next]_vars

\* Legs: longer frames over one more candle, so that continuation zones of both
\* kinds occur; extrema_window 1, continuation detection on
LegCandles == Candles \cup { FallWide }

MaxLegLen == 6

InitLeg ==
    Constructed(Frames(LegCandles, MaxLegLen), Ratios, {1}, {0}, {TRUE})

SpecLeg == InitLeg /\ [][Next]_vars

\* Validator: frames that include candles the validator accepts with open/close
\* outside [low, high], and a candle it rejects
ValidatorCandles == { FlatLow, RiseHigh, RiseWide, BelowA, BelowB, Crossed }

MaxValidatorLen == 3

InitValidator ==
    Constructed(Frames(ValidatorCandles, MaxValidatorLen), Ratios, 1..MaxWindow,
                0..MaxMomentum, BOOLEAN)

SpecValidator == InitValidator /\ [][Next]_vars

\* Wide windows: extrema_window at least the length of the frame
MaxWideWindow == 5

InitWide ==
    /\ Constructed(Frames(Candles, MaxWideWindow), Ratios, 1..MaxWideWindow, {0, 2}, BOOLEAN)
    /\ extrema_window >= Len(df)

SpecWide == InitWide /\ [][Next]_vars

\* Long frames over two candles: two local minima with extrema_window 2
MaxLongLen == 7

InitLong ==
    Constructed(Frames({FlatLow, RiseHigh}, MaxLongLen), Ratios, 1..MaxWindow,
                0..MaxMomentum, BOOLEAN)

SpecLong == InitLong /\ [][Next]_vars

\* Overlapping legs: frames long enough for two local maxima of the highs with
\* no local minimum of the lows between them, followed by a falling candle
\* and a local minimum
OverlapCandles == { FallWide, RiseHigh, FallLow, RiseWide }

MaxOverlapLen == 7

InitOverlap ==
    Constructed(Frames(OverlapCandles, MaxOverlapLen), Ratios, {1}, {0}, {TRUE})

SpecOverlap == InitOverlap /\ [][Next]_vars

\* Call sequences: one instance is called again and again, each time on any
\* frame of at most MaxCallLen candles
CallCandles == { FlatLow, RiseHigh }

MaxCallLen == 4

\* the frames of the call sequences: those over CallCandles, and the same with
\* a wide candle (highest high and lowest low) as next-to-last row
CallFrames ==
    Frames(CallCandles, MaxCallLen) \cup
        {[frame EXCEPT ![Len(frame) - 1] = RiseWide] :
            frame \in {f \in Frames(CallCandles, MaxCallLen) : Len(f) >= 2}}

InitCalls ==
    Constructed(CallFrames, Ratios, 1..MaxWindow, {0}, BOOLEAN)

NextCalls == \E frame \in CallFrames : detect_supply_demand_zones_on(frame)

SpecCalls == InitCalls /\ [][NextCalls]_vars

\* Doji: base windows long enough for CDLDOJI to score (extrema_window at least
\* DojiAvgPeriod).  A frame is extrema_window steady candles, the base candle
\* (the lowest low), steady candles again, and DojiTail last candles that are a
\* doji or strong; the frame has 2 * extrema_window + 1 candles.
Steady == Candle(5, 6, 5, 6)
BaseStrong == Candle(1, 3, 1, 3)
BaseTailed == Candle(3, 3, 1, 2)
DojiCandle == Candle(8, 9, 7, 8)
StrongUp == Candle(7, 9, 7, 9)
StrongDown == Candle(9, 9, 7, 7)

DojiTail == 2

DojiWindows == { DojiAvgPeriod, DojiAvgPeriod + 1 }

DojiFrames ==
    { [k \in 1..w |-> Steady] \o <<base>> \o [k \in 1..(w - DojiTail) |-> Steady] \o tail :
        w \in DojiWindows, base \in {BaseStrong, BaseTailed},
        tail \in [1..DojiTail -> {DojiCandle, StrongUp, StrongDown}] }

InitDoji ==
    /\ Constructed(DojiFrames, Ratios, DojiWindows, 0..MaxMomentum, BOOLEAN)
    /\ Len(df) = 2 * extrema_window + 1

SpecDoji == InitDoji /\ [][Next]_vars

\* Time: MaxThreads threads construct TimeProvider, each as often as it likes;
\* the matcher stays as constructed
InitTime == Constructed({<<>>}, {Ratio(3, 2)}, {1}, {0}, {FALSE})

SpecTime == InitTime /\ [][NextTime]_vars

\* Trade: the class is loaded and no trade has been built
InitTrade == Constructed({<<>>}, {Ratio(3, 2)}, {1}, {0}, {FALSE})

SpecTrade == InitTrade /\ [][NextTrade]_vars

-----------------------------------------------------------------------------
(* Properties *)

rows(frame) == 0..(Len(frame) - 1)

in_list(zones) == {zones[k] : k \in 1..Len(zones)}

returned_zones == in_list(supply_zones) \cup in_list(demand_zones)

\* the validator accepts the frame for some min_length the caller may pass
accepted(frame) == \E min_length \in 0..Len(frame) : check_ohlc_dataframe(frame, min_length)

\* open and close of every candle lie inside [low, high]
body_in_range(frame) ==
    \A k \in 1..Len(frame) :
        /\ frame[k].low <= frame[k].open /\ frame[k].open <= frame[k].high
        /\ frame[k].low <= frame[k].close /\ frame[k].close <= frame[k].high

\* close of every candle lies inside [low, high]
close_in_range(frame) ==
    \A k \in 1..Len(frame) :
        frame[k].low <= frame[k].close /\ frame[k].close <= frame[k].high

\* C1: every returned zone of a validated frame has start_index <= end_index and
\* both are rows of the frame (0..N-1).
C1_IndicesValid ==
    (status = "returned" /\ accepted(df)) =>
        \A zone \in returned_zones :
            /\ zone.start_index <= zone.end_index
            /\ zone.start_index \in rows(df)
            /\ zone.end_index \in rows(df)

\* C2: the call never raises on a frame the validator accepts (extrema_window > 0).
C2_NeverRaises ==
    (accepted(df) /\ extrema_window > 0) => status # "raised"

\* every candle of rows first..last (those inside the frame) closes strictly
\* higher (rising) / lower (falling) than the candle before it
staircase(frame, first, last, rising) ==
    \A i \in first..last :
        (i \in rows(frame)) =>
            /\ i >= 1
            /\ IF rising THEN iloc(frame, i).close > iloc(frame, i - 1).close
               ELSE iloc(frame, i).close < iloc(frame, i - 1).close

\* C3: no extremum-rooted DEMAND zone at m is returned when every candle of
\* m..m+w closes strictly higher than the candle before it, and no SUPPLY zone
\* at x when every candle of x..x+w closes strictly lower.
C3_StaircaseRejected ==
    (status = "returned" /\ accepted(df)) =>
        \A zone \in returned_zones :
            ~zone.is_continuation_zone =>
                ~staircase(df, zone.start_index, zone.start_index + extrema_window,
                           zone.zone_type = DEMAND_TYPE)

boundary_consistent(zone) ==
    /\ zone.zone_type = DEMAND_TYPE => zone.distal_level <= zone.proxima_level
    /\ zone.zone_type = SUPPLY_TYPE => zone.distal_level >= zone.proxima_level

C5_DistalInvariant ==
    status = "returned" =>
        \A zone \in returned_zones :
            \A j \in rows(df) :
                j > zone.end_index =>
                    /\ zone.zone_type = DEMAND_TYPE => ~(iloc(df, j).low < zone.distal_level)
                    /\ zone.zone_type = SUPPLY_TYPE => ~(iloc(df, j).high > zone.distal_level)

\* C5 witness: a continuation zone and an extremum-rooted zone are returned
\* together, each with candles after its end_index
C5_Witness ==
    /\ status = "returned"
    /\ \E zone \in returned_zones :
          zone.is_continuation_zone /\ zone.end_index < Len(df) - 1
    /\ \E zone \in returned_zones :
          ~zone.is_continuation_zone /\ zone.end_index < Len(df) - 1

\* C6: no returned DEMAND zone is anchored at a candle m (start_index = m,
\* distal_level = low[m]) that has a later candle with a lower low, and no SUPPLY
\* zone at a candle with a later candle with a higher high; later means any row
\* after start_index.
C6_AnyLaterBreachRemoves ==
    status = "returned" =>
        \A zone \in returned_zones :
            \A j \in rows(df) :
                j > zone.start_index =>
                    /\ zone.zone_type = DEMAND_TYPE =>
                          ~(iloc(df, j).low < iloc(df, zone.start_index).low)
                    /\ zone.zone_type = SUPPLY_TYPE =>
                          ~(iloc(df, j).high > iloc(df, zone.start_index).high)

\* C6 witness: a local minimum inside the guard passes the ratio test and the
\* momentum confirmation, a later candle trades below its low, and the call
\* returns no DEMAND zone anchored at it
C6_Witness ==
    /\ status = "returned"
    /\ \E m \in in_list(find_local_extrema(df, extrema_window).local_minima) :
          /\ ~outside_window(df, m, extrema_window)
          /\ m + extrema_window < Len(df)
          /\ ratio_test(iloc(df, m + extrema_window).close - iloc(df, m).close,
                        iloc(df, m).close - iloc(df, m).low, min_base_rally_ratio)
          /\ has_several_momentum_candles(df, m, DEMAND_TYPE, min_momentum_candles)
          /\ \E j \in rows(df) : j > m /\ iloc(df, j).low < iloc(df, m).low
          /\ ~ \E zone \in in_list(demand_zones) : zone.start_index = m

\* C7: every extremum-rooted zone returned passed the ratio test:
\* DEMAND at m: close[m+w] - close[m] > (close[m] - low[m]) * ratio;
\* SUPPLY at x: close[x] - close[x-w] > (high[x] - close[x]) * ratio.
C7_RatioGate ==
    status = "returned" =>
        \A zone \in returned_zones :
            ~zone.is_continuation_zone =>
                LET a == zone.start_index
                    w == extrema_window
                    num == min_base_rally_ratio.num
                    den == min_base_rally_ratio.den
                IN  /\ zone.zone_type = DEMAND_TYPE =>
                          (iloc(df, a + w).close - iloc(df, a).close) * den
                              > (iloc(df, a).close - iloc(df, a).low) * num
                    /\ zone.zone_type = SUPPLY_TYPE =>
                          (iloc(df, a).close - iloc(df, a - w).close) * den
                              > (iloc(df, a).high - iloc(df, a).close) * num

\* C7 witness: an extremum-rooted zone is returned whose base_length is positive
C7_Witness ==
    /\ status = "returned"
    /\ \E zone \in in_list(demand_zones) :
          /\ ~zone.is_continuation_zone
          /\ iloc(df, zone.start_index).close > iloc(df, zone.start_index).low

\* a zone as the claims identify it
zone_key(zone) ==
    <<zone.zone_type, zone.start_index, zone.end_index, zone.is_continuation_zone>>

\* r1 < r2 for two positive ratios
ratio_less(r1, r2) == r1.num * r2.den < r2.num * r1.den

\* the zones a call with ratio `ratio` and the rest of the configuration returns
zones_with_ratio(ratio) ==
    LET out == detect(df, ratio, extrema_window, min_momentum_candles,
                      detect_continuation_patterns)
    IN  {zone_key(zone) : zone \in in_list(out.supply_zones) \cup in_list(out.demand_zones)}

ratio_monotone ==
    \A r1 \in Ratios :
        ratio_less(r1, min_base_rally_ratio) =>
            {zone_key(zone) : zone \in returned_zones} \subseteq zones_with_ratio(r1)

C9_WindowBound ==
    (status # "constructed" /\ extrema_window >= Len(df)) =>
        /\ status = "returned"
        /\ result = << <<>>, <<>> >>

\* a local minimum the demand pipeline accepts: inside w..N-1-w, passing the
\* ratio test, the staircase/doji check and the momentum confirmation, with no
\* later candle below its low
demand_qualifies(frame, m, ratio, window, momentum_candles) ==
    /\ m \in in_list(find_local_extrema(frame, window).local_minima)
    /\ window <= m /\ m <= Len(frame) - 1 - window
    /\ ratio_test(iloc(frame, m + window).close - iloc(frame, m).close,
                  iloc(frame, m).close - iloc(frame, m).low, ratio)
    /\ ~is_low_probability_trading_zone(iloc_slice(frame, m, m + window + 1), DEMAND_TYPE)
    /\ has_several_momentum_candles(frame, m, DEMAND_TYPE, momentum_candles)
    /\ ~ \E j \in rows(frame) : j > m /\ iloc(frame, j).low < iloc(frame, m).low

\* C10: after a call, every such minimum m has exactly one DEMAND zone with
\* start_index = m and is_continuation_zone = False; with exactly one such
\* minimum and continuation detection off there is exactly one DEMAND zone.
C10_DemandComplete ==
    (status # "constructed" /\ accepted(df)) =>
        LET qualifying == {m \in rows(df) :
                              demand_qualifies(df, m, min_base_rally_ratio, extrema_window,
                                               min_momentum_candles)}
        IN  /\ \A m \in qualifying :
                  Cardinality({k \in 1..Len(demand_zones) :
                                  /\ demand_zones[k].start_index = m
                                  /\ ~demand_zones[k].is_continuation_zone}) = 1
            /\ (Cardinality(qualifying) = 1 /\ ~detect_continuation_patterns) =>
                  Len(demand_zones) = 1

\* the continuation zones the two continuation detectors qualify on a frame
qualifying_pullbacks(frame, ratio, window, momentum_candles) ==
    LET extrema == find_local_extrema(frame, window)
    IN  in_list(find_supply_continuation_zones(frame, extrema.local_minima,
                    extrema.local_maxima, ratio, momentum_candles))
        \cup in_list(find_demand_continuation_zones(frame, extrema.local_minima,
                    extrema.local_maxima, ratio, momentum_candles))

C12_ZoneShape ==
    (status = "returned" /\ extrema_window > 0) =>
        \A zone \in returned_zones :
            /\ zone.is_continuation_zone <=> (zone.start_index = zone.end_index)
            /\ ~zone.is_continuation_zone =>
                  zone.end_index = zone.start_index + extrema_window

\* C12 witness: a call returns a continuation zone next to an extremum-rooted
\* zone of each type
C12_Witness ==
    /\ status = "returned" /\ extrema_window > 0
    /\ \E zone \in returned_zones : zone.is_continuation_zone
    /\ \E zone \in in_list(supply_zones) : ~zone.is_continuation_zone
    /\ \E zone \in in_list(demand_zones) : ~zone.is_continuation_zone

\* what a fresh matcher with the same configuration leaves for the frame alone
fresh_call(frame) ==
    detect(frame, min_base_rally_ratio, extrema_window, min_momentum_candles,
           detect_continuation_patterns)

\* C13: after any sequence of calls on one instance, the lists the last call
\* returned are the instance fields supply_zones / demand_zones, and they are
\* what a fresh matcher with the same configuration returns for the last frame
\* alone: a call overwrites the results of earlier calls.
C13_NoCrossCallState ==
    status = "returned" =>
        /\ result = <<supply_zones, demand_zones>>
        /\ supply_zones = fresh_call(df).supply_zones
        /\ demand_zones = fresh_call(df).demand_zones

\* C13 witness: the last call returned zones although the instance held other,
\* non-empty lists from an earlier call when it began
C13_Witness ==
    /\ status = "returned"
    /\ before_call[1] # <<>> /\ before_call[2] # <<>>
    /\ before_call # <<supply_zones, demand_zones>>
    /\ returned_zones # {}

ascending(indices) ==
    \A k \in 1..(Len(indices) - 1) : indices[k] < indices[k + 1]

\* the rows of the frame that lie within `window` positions of row i, i excluded
window_of(frame, i, window) ==
    {j \in rows(frame) : j # i /\ Abs(i - j) <= window}

\* C14: find_local_extrema returns two ascending index lists; a reported
\* minimum has a low strictly below the low of every row within extrema_window
\* positions of it, a reported maximum a high strictly above; an index tied with
\* a row of its window is not reported.
C14_StrictExtrema ==
    status # "constructed" =>
        LET extrema == find_local_extrema(df, extrema_window)
        IN  /\ ascending(extrema.local_minima)
            /\ ascending(extrema.local_maxima)
            /\ \A i \in in_list(extrema.local_minima) :
                  /\ i \in rows(df)
                  /\ \A j \in window_of(df, i, extrema_window) :
                        iloc(df, i).low < iloc(df, j).low
            /\ \A i \in in_list(extrema.local_maxima) :
                  /\ i \in rows(df)
                  /\ \A j \in window_of(df, i, extrema_window) :
                        iloc(df, i).high > iloc(df, j).high
            /\ \A i \in rows(df) :
                  /\ (\E j \in window_of(df, i, extrema_window) :
                          iloc(df, i).low = iloc(df, j).low)
                        => i \notin in_list(extrema.local_minima)
                  /\ (\E j \in window_of(df, i, extrema_window) :
                          iloc(df, i).high = iloc(df, j).high)
                        => i \notin in_list(extrema.local_maxima)

\* C14 witness: a minimum and a maximum are reported, and a row whose low is
\* the least of its window but tied with a row in it is not
C14_Witness ==
    /\ status # "constructed"
    /\ LET extrema == find_local_extrema(df, extrema_window)
       IN  /\ extrema.local_minima # <<>>
           /\ extrema.local_maxima # <<>>
           /\ \E i \in rows(df) :
                 /\ i \notin in_list(extrema.local_minima)
                 /\ \A j \in window_of(df, i, extrema_window) :
                       iloc(df, i).low <= iloc(df, j).low
                 /\ \E j \in window_of(df, i, extrema_window) :
                       iloc(df, i).low = iloc(df, j).low

\* C15: find_local_extrema returns two empty lists when the frame has fewer
\* than 2 * extrema_window + 1 candles, and never reports an index with fewer
\* than extrema_window rows on either side.
C15_ShortFrameNoExtrema ==
    status # "constructed" =>
        LET extrema == find_local_extrema(df, extrema_window)
            reported == in_list(extrema.local_minima) \cup in_list(extrema.local_maxima)
        IN  /\ Len(df) < 2 * extrema_window + 1 => reported = {}
            /\ \A i \in reported :
                  extrema_window <= i /\ i <= Len(df) - 1 - extrema_window

\* the objects any construction has returned
all_handed == UNION {handed[t] : t \in Threads}

\* C16: however the threads interleave, every construction returns the same
\* single object; it is initialised once, line 40 runs sync_time once, and one
\* background thread is started.
C16_Singleton ==
    /\ Len(objects) <= 1
    /\ Cardinality(all_handed) <= 1
    /\ initial_syncs <= 1
    /\ Len(auto_sync_threads) <= 1
    /\ \A o \in all_handed :
          /\ o = instance
          /\ objects[o].initialised = 1
          /\ initial_syncs = 1
          /\ auto_sync_threads = <<o>>

\* C16 witness: every thread has been handed the object, and a thread is
\* constructing once more while another waits for the lock
C16_Witness ==
    /\ \A t \in Threads : handed[t] = {instance}
    /\ \E t \in Threads : pc[t] = "test" /\ lock = t
    /\ \E t \in Threads : pc[t] = "idle"

\* the rows of a base window that the doji pattern function marks
doji_matches(base_candles) ==
    {k \in 1..Len(base_candles) : CDLDOJI(base_candles)[k] # 0}

\* a local minimum that passes every gate of the demand pipeline but the doji check
demand_passes_but_doji(frame, m, ratio, window, momentum_candles) ==
    /\ m \in in_list(find_local_extrema(frame, window).local_minima)
    /\ window <= m /\ m <= Len(frame) - 1 - window
    /\ ratio_test(iloc(frame, m + window).close - iloc(frame, m).close,
                  iloc(frame, m).close - iloc(frame, m).low, ratio)
    /\ ~is_staircase_pattern(iloc_slice(frame, m, m + window + 1), DEMAND_TYPE)
    /\ has_several_momentum_candles(frame, m, DEMAND_TYPE, momentum_candles)
    /\ ~price_violates_distal_line(frame, m + window, iloc(frame, m).low, DEMAND_TYPE)

\* C17: the doji check rejects a candidate only when more than one candle of its
\* base window (rows m..m+w) matches the doji pattern: a local minimum that passes
\* every other gate and has at most one doji in its base window is returned as a
\* DEMAND zone.
C17_DojiMoreThanOne ==
    status = "returned" =>
        \A m \in rows(df) :
            (/\ demand_passes_but_doji(df, m, min_base_rally_ratio, extrema_window,
                                       min_momentum_candles)
             /\ Cardinality(doji_matches(iloc_slice(df, m, m + extrema_window + 1))) <= 1)
            => \E zone \in in_list(demand_zones) :
                   zone.start_index = m /\ ~zone.is_continuation_zone

\* a strong candle: body greater than half of the range
strong(candle) == 2 * Abs(candle.close - candle.open) > candle.high - candle.low

\* the close of row i is back past the close of the base candle
crosses_back(frame, start_index, zone_type, i) ==
    IF zone_type = DEMAND_TYPE
    THEN iloc(frame, i).close < iloc(frame, start_index).close
    ELSE iloc(frame, i).close > iloc(frame, start_index).close

\* the first row after the base candle that crosses back, Len(frame) when none does
stop_row(frame, start_index, zone_type) ==
    LET stops == {i \in rows(frame) :
                     i > start_index /\ crosses_back(frame, start_index, zone_type, i)}
    IN  IF stops = {} THEN Len(frame)
        ELSE CHOOSE i \in stops : \A j \in stops : i <= j

\* C18: every extremum-rooted zone returned has at least min_momentum_candles
\* strong candles between its base candle and the first candle whose close
\* crosses back past the base close; that candle itself is not counted.
C18_StopCandleNotCounted ==
    status = "returned" =>
        \A zone \in returned_zones :
            ~zone.is_continuation_zone =>
                LET stop == stop_row(df, zone.start_index, zone.zone_type)
                IN  Cardinality({i \in (zone.start_index + 1)..(stop - 1) :
                                    strong(iloc(df, i))}) >= min_momentum_candles

\* C19: every extremum-rooted zone returned has min_momentum_candles strong
\* candles in a row after its base candle (up to the candle that ends the scan):
\* strong candles separated by a candle that is not strong are not added up.
C19_ConsecutiveStrong ==
    (status = "returned" /\ min_momentum_candles > 0) =>
        \A zone \in returned_zones :
            ~zone.is_continuation_zone =>
                LET stop == stop_row(df, zone.start_index, zone.zone_type)
                    last == IF stop > Len(df) - 1 THEN Len(df) - 1 ELSE stop
                IN  \E i \in (zone.start_index + 1)..last :
                        \A j \in i..(i + min_momentum_candles - 1) :
                            j <= last /\ strong(iloc(df, j))

\* the rows strictly between rows a and b
strictly_between(a, b) == {i \in a..b : a < i /\ i < b}

\* C20: the supply continuation scan of a local maximum visits exactly the rows
\* strictly between it and the nearest local minimum after it; the demand
\* continuation scan of a local minimum visits exactly the rows strictly between
\* the nearest local maximum before it and the minimum.
C20_LegsJoinAdjacentExtrema ==
    (status = "returned" /\ detect_continuation_patterns) =>
        LET extrema == find_local_extrema(df, extrema_window)
            minima == in_list(extrema.local_minima)
            maxima == in_list(extrema.local_maxima)
        IN  /\ \A x \in maxima :
                  \A m \in minima :
                      (m > x /\ ~\E n \in minima : x < n /\ n < m) =>
                          in_list(supply_scan(extrema.local_minima, x))
                              = strictly_between(x, m)
            /\ \A m \in minima :
                  \A x \in maxima :
                      (x < m /\ ~\E y \in maxima : x < y /\ y < m) =>
                          in_list(demand_scan(extrema.local_maxima, m))
                              = strictly_between(x, m)

\* C21: the base candle of every continuation zone, SUPPLY or DEMAND, closes
\* against the direction of the leg it lies in; the leg runs from a local
\* maximum down to a local minimum, so the candle closes above the close of
\* the candle before it.
C21_CounterTrend ==
    status = "returned" =>
        \A zone \in returned_zones :
            zone.is_continuation_zone =>
                /\ zone.start_index >= 1
                /\ iloc(df, zone.start_index).close > iloc(df, zone.start_index - 1).close

\* the two rallies around row i of a leg from row a to row b both exceed the
\* range of candle i scaled by the ratio
rallies_exceed(frame, a, i, b, ratio) ==
    LET range_i == iloc(frame, i).high - iloc(frame, i).low
    IN  /\ Abs(iloc(frame, i).close - iloc(frame, a).close) * ratio.den > range_i * ratio.num
        /\ Abs(iloc(frame, b).close - iloc(frame, i).close) * ratio.den > range_i * ratio.num

\* C22: every continuation zone at candle i lies inside a leg from a local
\* maximum a to a local minimum b for which |close[i] - close[a]| and
\* |close[b] - close[i]| both exceed (high[i] - low[i]) * min_base_rally_ratio.
C22_BothRalliesExceed ==
    status = "returned" =>
        LET extrema == find_local_extrema(df, extrema_window)
        IN  \A zone \in returned_zones :
                zone.is_continuation_zone =>
                    \E a \in in_list(extrema.local_maxima) :
                        \E b \in in_list(extrema.local_minima) :
                            /\ a < zone.start_index /\ zone.start_index < b
                            /\ rallies_exceed(df, a, zone.start_index, b, min_base_rally_ratio)

\* C22 witness: a DEMAND continuation zone is returned whose base candle has a
\* positive range
C22_Witness ==
    /\ status = "returned"
    /\ \E zone \in in_list(demand_zones) :
          /\ zone.is_continuation_zone
          /\ iloc(df, zone.start_index).high > iloc(df, zone.start_index).low

\* C23: an extremum-rooted DEMAND zone has start_index at a local minimum m,
\* end_index = m + w, distal_level = low[m], proxima_level = max(open[m], close[m]);
\* a SUPPLY zone has start_index at a local maximum x, end_index = x + w,
\* distal_level = high[x], proxima_level = min(open[x], close[x]).
C23_FieldsFromAnchor ==
    status = "returned" =>
        LET extrema == find_local_extrema(df, extrema_window)
        IN  \A zone \in returned_zones :
                ~zone.is_continuation_zone =>
                    LET anchor == iloc(df, zone.start_index)
                    IN  /\ zone.end_index = zone.start_index + extrema_window
                        /\ zone.zone_type = DEMAND_TYPE =>
                              /\ zone.start_index \in in_list(extrema.local_minima)
                              /\ zone.distal_level = anchor.low
                              /\ zone.proxima_level >= anchor.open
                              /\ zone.proxima_level >= anchor.close
                              /\ zone.proxima_level \in {anchor.open, anchor.close}
                        /\ zone.zone_type = SUPPLY_TYPE =>
                              /\ zone.start_index \in in_list(extrema.local_maxima)
                              /\ zone.distal_level = anchor.high
                              /\ zone.proxima_level <= anchor.open
                              /\ zone.proxima_level <= anchor.close
                              /\ zone.proxima_level \in {anchor.open, anchor.close}

\* C23 witness: a DEMAND and a SUPPLY zone are returned whose anchor candles
\* have different open and close
C23_Witness ==
    /\ status = "returned"
    /\ \E zone \in in_list(demand_zones) :
          /\ ~zone.is_continuation_zone
          /\ iloc(df, zone.start_index).open # iloc(df, zone.start_index).close
    /\ \E zone \in in_list(supply_zones) :
          /\ ~zone.is_continuation_zone
          /\ iloc(df, zone.start_index).open # iloc(df, zone.start_index).close

\* the local minima inside the guard whose base candle closes on its low
\* (base_length = close[m] - low[m] = 0)
degenerate_bases(frame, window) ==
    {m \in in_list(find_local_extrema(frame, window).local_minima) :
        /\ window <= m /\ m <= Len(frame) - 1 - window
        /\ iloc(frame, m).close = iloc(frame, m).low}

\* an extremum-rooted DEMAND zone anchored at row m is returned
demand_zone_at(m) ==
    \E zone \in in_list(demand_zones) : zone.start_index = m /\ ~zone.is_continuation_zone

\* C24: a demand candidate with base_length 0 passes the ratio gate for every
\* positive rally_length, whatever the positive ratio (it becomes a zone when the
\* qualifier, the momentum confirmation and the distal filter let it through),
\* and is rejected at the gate when rally_length <= 0.
C24_DegenerateBase ==
    status = "returned" =>
        \A m \in degenerate_bases(df, extrema_window) :
            LET rally_length == iloc(df, m + extrema_window).close - iloc(df, m).close
            IN  /\ rally_length <= 0 => ~demand_zone_at(m)
                /\ (/\ rally_length > 0
                    /\ ~is_low_probability_trading_zone(
                           iloc_slice(df, m, m + extrema_window + 1), DEMAND_TYPE)
                    /\ has_several_momentum_candles(df, m, DEMAND_TYPE, min_momentum_candles)
                    /\ ~price_violates_distal_line(df, m + extrema_window, iloc(df, m).low,
                                                   DEMAND_TYPE))
                   => demand_zone_at(m)

\* C24 witness: with the larger ratio a candidate with base_length 0 and a
\* positive rally is returned as a zone
C24_Witness ==
    /\ status = "returned"
    /\ \A r \in Ratios : ~ratio_less(min_base_rally_ratio, r)
    /\ \E m \in degenerate_bases(df, extrema_window) :
          /\ iloc(df, m + extrema_window).close > iloc(df, m).close
          /\ demand_zone_at(m)

\* list `with` is list `without` followed only by continuation zones
appended_only(without, with) ==
    /\ Len(without) <= Len(with)
    /\ SubSeq(with, 1, Len(without)) = without
    /\ \A k \in (Len(without) + 1)..Len(with) : with[k].is_continuation_zone

\* the lists held are those of the call `off` followed only by continuation zones
only_appends_to(off) ==
    /\ off.exc = "none"
    /\ appended_only(off.supply_zones, supply_zones)
    /\ appended_only(off.demand_zones, demand_zones)

\* C26: enabling continuation detection only appends: each list returned with
\* the flag True begins with exactly the zones returned with the flag False for
\* the same candles and parameters, in the same order, followed only by zones
\* with is_continuation_zone = True.
C26_OnlyAppends ==
    (status = "returned" /\ detect_continuation_patterns) =>
        only_appends_to(detect(df, min_base_rally_ratio, extrema_window,
                               min_momentum_candles, FALSE))

\* C26 witness: a list returned with the flag True holds an extremum-rooted
\* zone followed by a continuation zone
C26_Witness ==
    /\ status = "returned"
    /\ detect_continuation_patterns
    /\ \E zones \in {supply_zones, demand_zones} :
          /\ Len(zones) >= 2
          /\ ~zones[1].is_continuation_zone
          /\ zones[Len(zones)].is_continuation_zone

\* no two zones of the list have the same start_index and the same flag
no_duplicates(zones) ==
    \A j, k \in 1..Len(zones) :
        (j # k /\ zones[j].start_index = zones[k].start_index)
            => zones[j].is_continuation_zone # zones[k].is_continuation_zone

\* C27: no returned list contains the same zone twice: within supply_zones and
\* within demand_zones no two zones have the same start_index together with the
\* same is_continuation_zone flag, also when more than one leg covers a candle.
C27_NoDuplicates ==
    status = "returned" => no_duplicates(supply_zones) /\ no_duplicates(demand_zones)

\* the continuation zones of a list, in order
continuation_zones(zones) ==
    LET flagged(zone) == zone.is_continuation_zone
    IN  SelectSeq(zones, flagged)

\* the call `other` returns the continuation zones that the lists hold
same_continuation_zones(other) ==
    /\ other.exc = "none"
    /\ continuation_zones(other.supply_zones) = continuation_zones(supply_zones)
    /\ continuation_zones(other.demand_zones) = continuation_zones(demand_zones)

\* C28: continuation zones bypass the momentum confirmation: for the same
\* candles and the same other parameters the continuation zones returned are
\* the same for every value of min_momentum_candles.
C28_MomentumIndependent ==
    (status = "returned" /\ detect_continuation_patterns) =>
        \A momentum_candles \in 0..MaxMomentum :
            same_continuation_zones(detect(df, min_base_rally_ratio, extrema_window,
                                           momentum_candles, TRUE))

\* C28 witness: a continuation zone is returned although the momentum
\* confirmation required (min_momentum_candles > 0) fails at its candle
C28_Witness ==
    /\ status = "returned"
    /\ min_momentum_candles > 0
    /\ \E zone \in returned_zones :
          /\ zone.is_continuation_zone
          /\ ~has_several_momentum_candles(df, zone.start_index, zone.zone_type,
                                           min_momentum_candles)

\* the lists are what the extremum-rooted supply builder computes for the last
\* frame alone, and nothing for demand
holds_failed_call(frame) ==
    /\ supply_zones =
           find_supply_zones(frame, find_local_extrema(frame, extrema_window).local_maxima,
                             min_base_rally_ratio, extrema_window, min_momentum_candles).zones
    /\ demand_zones = <<>>

\* the lists are those of `out`, the call on the last frame alone
holds_only(out) ==
    /\ supply_zones = out.supply_zones
    /\ demand_zones = out.demand_zones
    /\ (status = "raised") = (out.exc # "none")

\* C29: a failed call does not roll back: when a call raises in the demand
\* stage the instance holds no demand zones and the supply zones the failed
\* call computed; after any call, successful or not, the two lists hold only
\* zones of that call, none of an earlier one.
C29_NoRollback ==
    /\ status = "raised" => holds_failed_call(df)
    /\ status \in {"returned", "raised"} => holds_only(fresh_call(df))

\* C29 witness: the last call raised and left its own supply zone, although the
\* instance held other supply zones from an earlier call when it began
C29_Witness ==
    /\ status = "raised"
    /\ supply_zones # <<>>
    /\ before_call[1] # <<>>
    /\ \A zone \in in_list(supply_zones) : zone \notin in_list(before_call[1])

\* C25: get_datetime yields a time in every interleaving with the auto-sync
\* thread: no call fails because sync_time reset time_offset to None between
\* the None test and the use of the offset.
C25_GetDatetimeYieldsTime ==
    \A t \in Threads : datetimes[t].value # "TypeError"

\* C30: trade identifiers are unique per trade: any two Trade objects built
\* without an explicit trade_id (those from_dict builds included, before it
\* overwrites the id) were given different trade_id values by __init__.
C30_UniqueTradeIds ==
    \A j, k \in 1..Len(trades) :
        (j # k /\ ~trades[j].given /\ ~trades[k].given)
            => trades[j].init_trade_id # trades[k].init_trade_id

====
